---- MODULE Spec2Model ----
(***************************************************************************)
(* Model of the persistence layer of the waiting-room application:         *)
(* DatabaseConnectionPool (src/db_connection_pool.py) and the scoped       *)
(* acquisition DatabaseManager.get_connection (src/database.py).           *)
(*                                                                         *)
(* A connection is an identifier of Ids.  Every section of the pool that   *)
(* runs under self.lock, and every queue.Queue operation (which is atomic  *)
(* by itself), is one step.  A caller is one use of                        *)
(* DatabaseManager.get_connection(): it asks the pool for a connection,    *)
(* runs the body of its with-block, and leaves the block.                  *)
(*                                                                         *)
(* The second part models the data-access methods of DatabaseManager over  *)
(* the tables of the database, and the projections computed from them      *)
(* (load_records, get_financial_summary).  The application is single       *)
(* threaded, so a data-access method runs from its first statement to its  *)
(* return without interleaving, and is one step.                           *)
(***************************************************************************)
EXTENDS Integers, Sequences, FiniteSets, TLC

\* ---- bounds of the model ----
NumCallers == 2
MaxMax == 2
MaxCreated == 3

Callers == 1..NumCallers
Ids == 1..MaxCreated
NoConn == 0

VARIABLES
    min_connections,      \* self.min_connections
    max_connections,      \* self.max_connections
    pool,                 \* self.pool: the idle queue, FIFO
    active_connections,   \* self.active_connections
    conn_state,           \* per connection: "none" (not created), "open", "closed"
    next_id,              \* the identifier of the next connection sqlite3.connect makes
    pc,                   \* per caller: where it is in its scope
    held,                 \* per caller: the connection its scope was given
    raised,               \* per caller: the exception that left pool.connection()
    received,             \* per caller: the exception the caller of DatabaseManager.get_connection sees
    failed_probe,         \* connections whose 'SELECT 1' probe failed in return_connection
    gets_since_release    \* successful get_connection() calls since the last release

pool_vars == <<min_connections, max_connections, pool, active_connections, conn_state,
               next_id, pc, held, raised, received, failed_probe, gets_since_release>>

VARIABLES
    now,                  \* the clock: datetime.now() and SQLite's 'now'
    db,                   \* the committed content of the tables
    db_pool,              \* DatabaseManager.connection_pool: idle connections and active_connections
    schema,               \* the tables, their columns, and the indexes of the database file
    ui                    \* the application: started, and its lists waiting_queue, with_doctor, visited_today

db_vars == <<now, db, db_pool, schema, ui>>

VARIABLES
    held_at_close         \* history: the connections that were checked out when close_all() ran

hist_vars == <<held_at_close>>

vars == <<pool_vars, db_vars, hist_vars>>

Range(s) == {s[i] : i \in 1..Len(s)}

\* ---- exceptions ----
NoError == "none"
\* what the body of a with-block can raise: a database error, any other
\* Exception, or a BaseException that is not an Exception
BodyExceptions == {"sqlite3.Error", "Exception", "KeyboardInterrupt"}

\* sqlite3.Error and its subclasses: `except sqlite3.Error` matches them
IsSqliteError(e) == e \in {"sqlite3.Error", "sqlite3.IntegrityError", "sqlite3.OperationalError"}

\* `except Exception` matches everything but the bare BaseException classes
IsException(e) == IsSqliteError(e) \/
                  e \in {"Exception", "ValueError", "ConnectionError",
                         "DatabaseConnectionError", "DatabaseOperationError", "DatabaseError"}

\* class DatabaseError(Exception) and its subclasses
IsDatabaseError(e) == e \in {"DatabaseError", "DatabaseConnectionError", "DatabaseOperationError"}

\* DatabaseManager.get_connection: `except sqlite3.Error` turns a database
\* error into DatabaseConnectionError; anything else passes through unchanged
DatabaseManager_get_connection(e) ==
    IF IsSqliteError(e) THEN "DatabaseConnectionError" ELSE e

\* App.__init__: `except DatabaseError as e`
App_handles(e) == IsDatabaseError(e)

\* ---- the database ----
\* bounds of the database model
MaxNow == 2
MaxVisits == 2
MaxClosed == 1

TicksPerDay == 2
PatientNames == {"Amel", "Badr"}
ServiceNames == {"Consultation", "X-Ray"}
Prices == {500, 1500}
Amounts == {0, 1500}
UserNames == {"admin", "nurse", "desk"}
\* role IN ('Doctor', 'Receptionist', 'Assistant')
ValidRoles == {"Doctor", "Receptionist", "Assistant"}
Roles == {"Doctor", "Receptionist", "Admin"}

MaxServiceSeq == 2

\* SQL NULL
Null == -1

\* what a call returns, as a tuple: Python's None, True, False
None == <<>>
True == <<1>>
False == <<0>>

\* with_doctor = None
NoPatient == ""

\* the service_ids lists passed to update_visit_checkout
ServiceIdArgs == 1..MaxServiceSeq
ServiceIdLists == {<<>>} \cup {<<a>> : a \in ServiceIdArgs \cup {Null}}
                      \cup {<<a, b>> : a \in ServiceIdArgs, b \in ServiceIdArgs}

\* date(t): the day of a timestamp
DateOf(t) == IF t = Null THEN Null ELSE t \div TicksPerDay

\* DatabaseManager.__init__: DatabaseConnectionPool(db_path, min_connections=2, max_connections=10, timeout=20)
DbMinConnections == 2
DbMaxConnections == 10

\* init_database: the tables exist and are empty
EmptyDb ==
    [patients |-> <<>>,          \* patients: row i has patient_id i and name patients[i]
     visits |-> <<>>,            \* visits: row i has visit_id i
     visit_services |-> {},      \* visit_services: pairs <<visit_id, service_id>>
     services |-> {},            \* services: records [service_id, name, price]
     service_seq |-> 0,          \* the AUTOINCREMENT counter of services
     users |-> <<>>]             \* users: row i has user_id i

\* the state after DatabaseManager.__init__
DbInitial ==
    /\ now = 0
    /\ db = EmptyDb
    /\ db_pool = [idle |-> DbMinConnections, active |-> DbMinConnections]
    /\ ui = [started |-> FALSE,
             lists |-> [waiting_queue |-> <<>>, with_doctor |-> NoPatient, visited_today |-> <<>>]]

\* ---- the schema ----
TableNames == {"users", "patients", "visits", "services", "visit_services", "transactions", "audit_log"}

\* the columns of the CREATE TABLE statements of init_database
CurrentColumns ==
    [t \in TableNames |->
        CASE t = "users" -> {"user_id", "username", "password_hash", "role"}
          [] t = "patients" -> {"patient_id", "name", "phone_number", "first_seen_date"}
          [] t = "visits" -> {"visit_id", "patient_id", "date", "arrived_at", "called_at",
                              "checkout_at", "total_paid"}
          [] t = "services" -> {"service_id", "name", "price"}
          [] t = "visit_services" -> {"visit_id", "service_id"}
          [] t = "transactions" -> {"transaction_id", "visit_id", "patient_name", "amount", "timestamp"}
          [] t = "audit_log" -> {"log_id", "user_id", "action", "timestamp", "details"}]

\* the CREATE INDEX statements of init_database, in their order (the one
\* on audit_log(timestamp) is written twice)
IndexStatements ==
    << [name |-> "idx_patients_name", table |-> "patients", column |-> "name"],
       [name |-> "idx_visits_date", table |-> "visits", column |-> "date"],
       [name |-> "idx_visits_called_at", table |-> "visits", column |-> "called_at"],
       [name |-> "idx_visits_checkout_at", table |-> "visits", column |-> "checkout_at"],
       [name |-> "idx_audit_log_timestamp", table |-> "audit_log", column |-> "timestamp"],
       [name |-> "idx_audit_log_timestamp", table |-> "audit_log", column |-> "timestamp"],
       [name |-> "idx_audit_log_user_id", table |-> "audit_log", column |-> "user_id"] >>

IndexNames == {IndexStatements[i].name : i \in 1..Len(IndexStatements)}

\* a database file without any table: a table with no column does not exist
EmptyFile == [columns |-> [t \in TableNames |-> {}], indexes |-> {}]

\* CREATE TABLE IF NOT EXISTS: an existing table is left as it is
create_tables(f) ==
    [f EXCEPT !.columns = [t \in TableNames |-> IF f.columns[t] = {} THEN CurrentColumns[t]
                                                  ELSE f.columns[t]]]

\* CREATE INDEX IF NOT EXISTS, statement i and those after it: an existing
\* index is left as it is; a column that the table lacks stops the script
RECURSIVE create_indexes(_, _)
create_indexes(f, i) ==
    IF i > Len(IndexStatements) THEN [schema |-> f, exc |-> NoError]
    ELSE LET st == IndexStatements[i] IN
         IF st.name \in f.indexes THEN create_indexes(f, i + 1)
         ELSE IF st.column \in f.columns[st.table]
              THEN create_indexes([f EXCEPT !.indexes = f.indexes \cup {st.name}], i + 1)
              ELSE [schema |-> f, exc |-> "sqlite3.OperationalError"]

\* cursor.executescript(...): each statement that ran is kept
executescript(f) == create_indexes(create_tables(f), 1)

\* the message of the sqlite3.OperationalError of ALTER TABLE patients ADD
\* COLUMN phone_number ("" when it raises nothing); locked: the database is
\* locked by another process
alter_message(f, locked) ==
    IF locked THEN "database is locked"
    ELSE IF "phone_number" \in f.columns["patients"] THEN "duplicate column name: phone_number"
    ELSE ""

\* "duplicate column name" in str(e).lower()
is_duplicate_column(msg) == msg \in {"duplicate column name: phone_number"}

\* the schema of a file on which init_database ran for the first time
FreshSchema == executescript(EmptyFile).schema

\* ---- construction ----
\* _add_connection on a state [pool, active, next, closed]
add_connection(st, max) ==
    IF st.active < max
    THEN IF Len(st.pool) < max
         THEN [st EXCEPT !.pool = Append(st.pool, st.next),
                         !.active = st.active + 1,
                         !.next = st.next + 1]
         ELSE \* queue.Full: the new connection is closed, the count is not touched
              [st EXCEPT !.closed = st.closed \cup {st.next},
                         !.next = st.next + 1]
    ELSE st

RECURSIVE initialize_pool(_, _, _)
initialize_pool(st, n, max) ==
    IF n = 0 THEN st ELSE initialize_pool(add_connection(st, max), n - 1, max)

EmptyPool == [pool |-> <<>>, active |-> 0, next |-> 1, closed |-> {}]

InitOn(file) ==
    \E max \in 1..MaxMax : \E min \in 0..max :
        LET st == initialize_pool(EmptyPool, min, max) IN
        /\ min_connections = min
        /\ max_connections = max
        /\ pool = st.pool
        /\ active_connections = st.active
        /\ next_id = st.next
        /\ conn_state = [k \in Ids |-> IF k \in st.closed THEN "closed"
                                       ELSE IF k < st.next THEN "open" ELSE "none"]
        /\ pc = [c \in Callers |-> "idle"]
        /\ held = [c \in Callers |-> NoConn]
        /\ raised = [c \in Callers |-> NoError]
        /\ received = [c \in Callers |-> NoError]
        /\ failed_probe = {}
        /\ gets_since_release = 0
        /\ held_at_close = {}
        /\ DbInitial
        /\ schema = file

\* the state after construction on a database file that did not exist
Init == InitOn(FreshSchema)

\* ---- the scope: `with self.get_connection() as conn:` ----
Getting == {c \in Callers : pc[c] \in {"getting", "timedout"}}

\* a caller enters `with db.get_connection()`; the guard keeps an
\* identifier free for every caller that may have to create a connection
enter_scope(c) ==
    /\ UNCHANGED <<db_vars, hist_vars>>
    /\ pc[c] \in {"idle", "done", "error"}
    /\ next_id + Cardinality(Getting) <= MaxCreated
    /\ pc' = [pc EXCEPT ![c] = "getting"]
    /\ held' = [held EXCEPT ![c] = NoConn]
    /\ raised' = [raised EXCEPT ![c] = NoError]
    /\ received' = [received EXCEPT ![c] = NoError]
    /\ UNCHANGED <<min_connections, max_connections, pool, active_connections,
                   conn_state, next_id, failed_probe, gets_since_release>>

\* get_from_pool with the connection left on the queue
get_from_pool_peek(c) ==
    /\ UNCHANGED <<db_vars, hist_vars>>
    /\ pc[c] = "getting"
    /\ pool # <<>>
    /\ held' = [held EXCEPT ![c] = Head(pool)]
    /\ pool' = pool
    /\ pc' = [pc EXCEPT ![c] = "body"]
    /\ gets_since_release' = gets_since_release + 1
    /\ UNCHANGED <<min_connections, max_connections, active_connections, conn_state,
                   next_id, raised, received, failed_probe>>

\* get_connection: self.pool.get(block=True, timeout=...) finds a connection
get_from_pool(c) ==
    /\ UNCHANGED <<db_vars, hist_vars>>
    /\ pc[c] = "getting"
    /\ pool # <<>>
    /\ held' = [held EXCEPT ![c] = Head(pool)]
    /\ pool' = Tail(pool)
    /\ pc' = [pc EXCEPT ![c] = "body"]
    /\ gets_since_release' = gets_since_release + 1
    /\ UNCHANGED <<min_connections, max_connections, active_connections, conn_state,
                   next_id, raised, received, failed_probe>>

\* get_connection: the queue stayed empty for the timeout: queue.Empty
get_timeout(c) ==
    /\ UNCHANGED <<db_vars, hist_vars>>
    /\ pc[c] = "getting"
    /\ pool = <<>>
    /\ pc' = [pc EXCEPT ![c] = "timedout"]
    /\ UNCHANGED <<min_connections, max_connections, pool, active_connections, conn_state,
                   next_id, held, raised, received, failed_probe, gets_since_release>>

\* the caller leaves connection() and DatabaseManager.get_connection with exception e
Fail(c, e) ==
    /\ pc' = [pc EXCEPT ![c] = "error"]
    /\ raised' = [raised EXCEPT ![c] = e]
    /\ received' = [received EXCEPT ![c] = DatabaseManager_get_connection(e)]

\* get_on_demand that waits on the queue again instead of raising
get_on_demand_retry(c, created) ==
    /\ UNCHANGED <<db_vars, hist_vars>>
    /\ pc[c] = "timedout"
    /\ IF active_connections < max_connections
       THEN IF created
            THEN /\ next_id \in Ids
                 /\ held' = [held EXCEPT ![c] = next_id]
                 /\ conn_state' = [conn_state EXCEPT ![next_id] = "open"]
                 /\ next_id' = next_id + 1
                 /\ pc' = [pc EXCEPT ![c] = "body"]
                 /\ gets_since_release' = gets_since_release + 1
                 /\ UNCHANGED <<raised, received>>
            ELSE /\ Fail(c, "sqlite3.Error")
                 /\ UNCHANGED <<held, conn_state, next_id, gets_since_release>>
       ELSE /\ created
            /\ pc' = [pc EXCEPT ![c] = "getting"]
            /\ UNCHANGED <<held, conn_state, next_id, gets_since_release, raised, received>>
    /\ UNCHANGED <<min_connections, max_connections, pool, active_connections, failed_probe>>

\* get_connection, `except queue.Empty`, under the lock: create a connection
\* when the count is below the maximum, raise ConnectionError otherwise.
\* created = FALSE: sqlite3.connect fails in _create_connection.
get_on_demand(c, created) ==
    /\ UNCHANGED <<db_vars, hist_vars>>
    /\ pc[c] = "timedout"
    /\ IF active_connections < max_connections
       THEN IF created
            THEN /\ next_id \in Ids
                 /\ held' = [held EXCEPT ![c] = next_id]
                 /\ conn_state' = [conn_state EXCEPT ![next_id] = "open"]
                 /\ next_id' = next_id + 1
                 /\ pc' = [pc EXCEPT ![c] = "body"]
                 /\ gets_since_release' = gets_since_release + 1
                 /\ UNCHANGED <<raised, received>>
            ELSE /\ Fail(c, "sqlite3.Error")
                 /\ UNCHANGED <<held, conn_state, next_id, gets_since_release>>
       ELSE /\ created
            /\ Fail(c, "ConnectionError")
            /\ UNCHANGED <<held, conn_state, next_id, gets_since_release>>
    /\ UNCHANGED <<min_connections, max_connections, pool, active_connections, failed_probe>>

\* return_connection without the probe: a dead connection is enqueued too
return_connection_unprobed(c, alive) ==
    LET conn == held[c] IN
    IF Len(pool) < max_connections
    THEN /\ pool' = Append(pool, conn)
         /\ failed_probe' = IF alive THEN failed_probe ELSE failed_probe \cup {conn}
         /\ UNCHANGED <<active_connections, conn_state>>
    ELSE /\ active_connections' = active_connections - 1
         /\ conn_state' = [conn_state EXCEPT ![conn] = "closed"]
         /\ failed_probe' = IF alive THEN failed_probe ELSE failed_probe \cup {conn}
         /\ UNCHANGED pool

\* return_connection that forgets a live connection when the queue is full
return_connection_forget(c, alive) ==
    LET conn == held[c] IN
    IF alive
    THEN /\ pool' = IF Len(pool) < max_connections THEN Append(pool, conn) ELSE pool
         /\ UNCHANGED <<active_connections, conn_state, failed_probe>>
    ELSE /\ active_connections' = active_connections - 1
         /\ conn_state' = [conn_state EXCEPT ![conn] = "closed"]
         /\ failed_probe' = failed_probe \cup {conn}
         /\ UNCHANGED pool

\* return_connection(conn): probe the connection with 'SELECT 1' and put it
\* on the queue; on sqlite3.Error (alive = FALSE) or queue.Full, decrement
\* the count under the lock and close the connection
return_connection(c, alive) ==
    LET conn == held[c] IN
    IF alive /\ Len(pool) < max_connections
    THEN /\ pool' = Append(pool, conn)
         /\ UNCHANGED <<active_connections, conn_state, failed_probe>>
    ELSE /\ active_connections' = active_connections - 1
         /\ conn_state' = [conn_state EXCEPT ![conn] = "closed"]
         /\ failed_probe' = IF alive THEN failed_probe ELSE failed_probe \cup {conn}
         /\ UNCHANGED pool

\* connection(), `else:` branch: the body ended without an exception
exit_normal(c, alive) ==
    /\ UNCHANGED <<db_vars, hist_vars>>
    /\ pc[c] = "body"
    /\ return_connection(c, alive)
    /\ pc' = [pc EXCEPT ![c] = "done"]
    /\ held' = [held EXCEPT ![c] = NoConn]
    /\ gets_since_release' = 0
    /\ UNCHANGED <<min_connections, max_connections, next_id, raised, received>>

\* connection(), the body raised e.  `except Exception`: close the
\* connection, decrement the count, re-raise.  An exception that is not an
\* Exception matches neither `except Exception` nor `else`, and propagates
\* with the connection untouched.
exit_raise(c, e) ==
    /\ UNCHANGED <<db_vars, hist_vars>>
    /\ pc[c] = "body"
    /\ IF IsException(e)
       THEN /\ conn_state' = [conn_state EXCEPT ![held[c]] = "closed"]
            /\ active_connections' = active_connections - 1
       ELSE UNCHANGED <<conn_state, active_connections>>
    /\ Fail(c, e)
    /\ held' = [held EXCEPT ![c] = NoConn]
    /\ gets_since_release' = 0
    /\ UNCHANGED <<min_connections, max_connections, pool, next_id, failed_probe>>

\* the loop of close_all(): every connection on the queue is taken off,
\* closed, and the count decremented once for each
drain_pool ==
    /\ conn_state' = [k \in Ids |-> IF k \in Range(pool) THEN "closed" ELSE conn_state[k]]
    /\ active_connections' = active_connections - Len(pool)
    /\ pool' = <<>>
    /\ gets_since_release' = 0
    /\ UNCHANGED <<min_connections, max_connections, next_id, pc, held, raised,
                   received, failed_probe>>

\* close_all(): under the lock, take every connection off the queue, close
\* it and decrement the count once for each
close_all ==
    /\ UNCHANGED <<db_vars, hist_vars>>
    /\ drain_pool

\* close_all(), with the connections that are checked out at that moment recorded
close_all_observed ==
    /\ drain_pool
    /\ held_at_close' = held_at_close \cup {held[c] : c \in {x \in Callers : pc[x] = "body"}}
    /\ UNCHANGED db_vars

Next ==
    \/ \E c \in Callers : enter_scope(c)
    \/ \E c \in Callers : get_from_pool(c)
    \/ \E c \in Callers : get_timeout(c)
    \/ \E c \in Callers : \E created \in BOOLEAN : get_on_demand(c, created)
    \/ \E c \in Callers : \E alive \in BOOLEAN : exit_normal(c, alive)
    \/ \E c \in Callers : \E e \in BodyExceptions : exit_raise(c, e)
    \/ close_all

Spec == Init /\ [][Next]_vars

\* scopes only: close_all() is never called
ScopeNext ==
    \/ \E c \in Callers : enter_scope(c)
    \/ \E c \in Callers : get_from_pool(c)
    \/ \E c \in Callers : get_timeout(c)
    \/ \E c \in Callers : \E created \in BOOLEAN : get_on_demand(c, created)
    \/ \E c \in Callers : \E alive \in BOOLEAN : exit_normal(c, alive)
    \/ \E c \in Callers : \E e \in BodyExceptions : exit_raise(c, e)

ScopeSpec == Init /\ [][ScopeNext]_vars

\* the pool with every close_all() observed
ShutdownNext ==
    \/ \E c \in Callers : enter_scope(c)
    \/ \E c \in Callers : get_from_pool(c)
    \/ \E c \in Callers : get_timeout(c)
    \/ \E c \in Callers : \E created \in BOOLEAN : get_on_demand(c, created)
    \/ \E c \in Callers : \E alive \in BOOLEAN : exit_normal(c, alive)
    \/ \E c \in Callers : \E e \in BodyExceptions : exit_raise(c, e)
    \/ close_all_observed

ShutdownSpec == Init /\ [][ShutdownNext]_vars

\* queue.get(timeout=...) returns or times out, and the locked section that
\* follows runs to its end: a caller inside get_connection() keeps moving.
\* Nothing forces a caller to leave the body of its scope.
FairSpec ==
    Spec /\ \A c \in Callers :
        WF_vars(get_from_pool(c) \/ get_timeout(c) \/ \E created \in BOOLEAN : get_on_demand(c, created))

TypeOK ==
    /\ min_connections \in 0..MaxMax /\ max_connections \in 1..MaxMax
    /\ Len(pool) <= MaxMax
    /\ active_connections \in Int
    /\ conn_state \in [Ids -> {"none", "open", "closed"}]
    /\ next_id \in 1..(MaxCreated + 1)
    /\ pc \in [Callers -> {"idle", "getting", "timedout", "body", "done", "error"}]
    /\ held \in [Callers -> Ids \cup {NoConn}]

\* ---- DatabaseManager: connections ----
\* get_connection() of the pool, for the single-threaded data-access layer:
\* an idle connection if there is one; otherwise, after the timeout, a new
\* connection if the count is below the maximum (created = FALSE:
\* sqlite3.connect fails), and ConnectionError at the maximum
pool_get_connection(p, created) ==
    IF p.idle > 0
    THEN [exc |-> NoError, pool |-> [p EXCEPT !.idle = p.idle - 1]]
    ELSE IF p.active < DbMaxConnections
         THEN [exc |-> IF created THEN NoError ELSE "sqlite3.Error", pool |-> p]
         ELSE [exc |-> "ConnectionError", pool |-> p]

\* return_connection() of a live connection: back on the queue, or closed
\* and uncounted when the queue is full
pool_return_connection(p) ==
    IF p.idle < DbMaxConnections
    THEN [p EXCEPT !.idle = p.idle + 1]
    ELSE [p EXCEPT !.active = p.active - 1]

\* the pool hands out a connection: one is idle, or sqlite3.connect succeeds
Obtained(p, created) == pool_get_connection(p, created).exc = NoError

\* connection(), `except Exception`: the connection is closed, which rolls
\* back what it had not committed, and the count is decremented
pool_close_connection(p) == [p EXCEPT !.active = p.active - 1]

\* `with self.connection_pool.connection() as conn: Body`.  Body(q) is the
\* outcome of the block when the pool is q: [db, pool, ret, exc, audit], db
\* being what is committed when the block ends or raises, and audit what
\* became of the audit-log entry ("none", "written", "failed")
pool_connection(p, created, db0, Body(_)) ==
    LET a == pool_get_connection(p, created) IN
    IF a.exc # NoError
    THEN [db |-> db0, pool |-> a.pool, ret |-> None, exc |-> a.exc, audit |-> "none"]
    ELSE LET b == Body(a.pool) IN
         IF b.exc # NoError
         THEN [b EXCEPT !.pool = pool_close_connection(b.pool), !.ret = None]
         ELSE [b EXCEPT !.pool = pool_return_connection(b.pool)]

\* `with self.get_connection() as conn: Body` of DatabaseManager
db_get_connection(p, created, db0, Body(_)) ==
    LET r == pool_connection(p, created, db0, Body) IN
    [r EXCEPT !.exc = DatabaseManager_get_connection(r.exc)]

\* `except sqlite3.Error as e: raise DatabaseOperationError(...)`
except_sqlite3_Error(r) ==
    IF IsSqliteError(r.exc) THEN [r EXCEPT !.exc = "DatabaseOperationError"] ELSE r

\* `except Exception as e:` that only logs
except_Exception(r) ==
    IF IsException(r.exc) THEN [r EXCEPT !.exc = NoError] ELSE r

\* ---- DatabaseManager: patients and visits ----
PatientIds(d) == 1..Len(d.patients)
VisitIds(d) == 1..Len(d.visits)
PatientIdOf(d, name) == CHOOSE i \in PatientIds(d) : d.patients[i] = name
HasPatient(d, name) == \E i \in PatientIds(d) : d.patients[i] = name

\* add_patient(name, phone_number): the id of the patient of that name,
\* inserted when there is none
add_patient(d, p, created, name) ==
    IF name = ""
    THEN [db |-> d, pool |-> p, ret |-> None, exc |-> "ValueError", audit |-> "none"]
    ELSE LET Body(q) ==
                 IF HasPatient(d, name)
                 THEN [db |-> d, pool |-> q, ret |-> <<PatientIdOf(d, name)>>,
                       exc |-> NoError, audit |-> "none"]
                 ELSE [db |-> [d EXCEPT !.patients = Append(d.patients, name)], pool |-> q,
                       ret |-> <<Len(d.patients) + 1>>, exc |-> NoError, audit |-> "none"]
         IN except_sqlite3_Error(pool_connection(p, created, d, Body))

\* the row add_visit inserts: date('now'), arrived_at = now, the rest NULL
new_visit(t, patient_id) ==
    [patient_id |-> patient_id, date |-> DateOf(t), arrived_at |-> t,
     called_at |-> Null, checkout_at |-> Null, total_paid |-> Null]

\* add_visit that stamps the row as called on arrival
add_visit_called(d, p, created, t, patient_id) ==
    LET Body(q) ==
            IF patient_id \notin PatientIds(d)
            THEN [db |-> d, pool |-> q, ret |-> None, exc |-> "sqlite3.IntegrityError", audit |-> "none"]
            ELSE [db |-> [d EXCEPT !.visits =
                             Append(d.visits, [new_visit(t, patient_id) EXCEPT !.called_at = t])],
                  pool |-> q, ret |-> <<Len(d.visits) + 1>>, exc |-> NoError, audit |-> "none"]
    IN except_sqlite3_Error(db_get_connection(p, created, d, Body))

\* add_visit(patient_id, user_id): INSERT INTO visits (patient_id, date,
\* arrived_at) VALUES (?, date('now'), now); the foreign key on patient_id is enforced
add_visit(d, p, created, t, patient_id) ==
    LET Body(q) ==
            IF patient_id \notin PatientIds(d)
            THEN [db |-> d, pool |-> q, ret |-> None, exc |-> "sqlite3.IntegrityError", audit |-> "none"]
            ELSE [db |-> [d EXCEPT !.visits = Append(d.visits, new_visit(t, patient_id))],
                  pool |-> q, ret |-> <<Len(d.visits) + 1>>, exc |-> NoError, audit |-> "none"]
    IN except_sqlite3_Error(db_get_connection(p, created, d, Body))

\* add_audit_log that lets a failure of its INSERT or of its connection out
add_audit_log_raising(q, created, write_ok) ==
    LET Body(q2) == [db |-> <<>>, pool |-> q2, ret |-> None,
                     exc |-> IF write_ok THEN NoError ELSE "sqlite3.OperationalError",
                     audit |-> "none"]
        r == db_get_connection(q, created, <<>>, Body)
    IN [pool |-> r.pool, exc |-> r.exc,
        audit |-> IF r.exc = NoError THEN "written" ELSE "failed"]

\* add_audit_log(user_id, action, details): INSERT INTO audit_log on a
\* connection of its own (write_ok = FALSE: the INSERT fails);
\* `except (sqlite3.Error, DatabaseConnectionError)` only logs
add_audit_log(q, created, write_ok) ==
    LET Body(q2) == [db |-> <<>>, pool |-> q2, ret |-> None,
                     exc |-> IF write_ok THEN NoError ELSE "sqlite3.OperationalError",
                     audit |-> "none"]
        r == db_get_connection(q, created, <<>>, Body)
    IN IF IsSqliteError(r.exc) \/ r.exc = "DatabaseConnectionError"
       THEN [pool |-> r.pool, exc |-> NoError, audit |-> "failed"]
       ELSE [pool |-> r.pool, exc |-> r.exc,
             audit |-> IF r.exc = NoError THEN "written" ELSE "failed"]

NameOfVisit(d, v) == d.patients[d.visits[v].patient_id]

\* the WHERE clause without `AND v.called_at IS NULL`
AnyToday(d, t, name) ==
    {v \in VisitIds(d) : NameOfVisit(d, v) = name /\ d.visits[v].date = DateOf(t)}

\* WHERE p.name = ? AND v.called_at IS NULL AND v.date = date('now')
UncalledToday(d, t, name) ==
    {v \in VisitIds(d) : /\ NameOfVisit(d, v) = name
                         /\ d.visits[v].called_at = Null
                         /\ d.visits[v].date = DateOf(t)}

\* the SELECT without `AND v.called_at IS NULL`
NewestToday(d, t, name) ==
    LET u == {v \in VisitIds(d) : NameOfVisit(d, v) = name /\ d.visits[v].date = DateOf(t)} IN
    IF u = {} THEN {Null}
    ELSE {v \in u : \A w \in u : d.visits[w].arrived_at <= d.visits[v].arrived_at}

\* ORDER BY v.arrived_at ASC LIMIT 1 in place of DESC
OldestUncalled(d, t, name) ==
    LET u == UncalledToday(d, t, name) IN
    IF u = {} THEN {Null}
    ELSE {v \in u : \A w \in u : d.visits[v].arrived_at <= d.visits[w].arrived_at}

\* ORDER BY v.arrived_at DESC LIMIT 1: the rows the query may return
\* (Null: no row); rows with the same arrived_at come in no defined order
NewestUncalled(d, t, name) ==
    LET u == UncalledToday(d, t, name) IN
    IF u = {} THEN {Null}
    ELSE {v \in u : \A w \in u : d.visits[w].arrived_at <= d.visits[v].arrived_at}

\* update_patient_call(patient_name, call_time, user_id); pick is the row
\* the SELECT returned.  The UPDATE is committed before add_audit_log runs.
update_patient_call(d, p, created, name, call_time, pick, audit_created, audit_ok) ==
    LET Body(q) ==
            IF pick = Null
            THEN [db |-> d, pool |-> q, ret |-> False, exc |-> NoError, audit |-> "none"]
            ELSE LET a == add_audit_log(q, audit_created, audit_ok) IN
                 [db |-> [d EXCEPT !.visits[pick].called_at = call_time],
                  pool |-> a.pool, ret |-> True, exc |-> a.exc, audit |-> a.audit]
    IN except_sqlite3_Error(db_get_connection(p, created, d, Body))

\* the loop of INSERTs skipped
insert_visit_services_none(d, vs, visit_id, service_ids) == [ok |-> TRUE, rows |-> vs]

\* the INSERTs of update_visit_checkout on the uncommitted rows vs: ok is
\* FALSE when one violates the primary key, a foreign key or NOT NULL
RECURSIVE insert_visit_services(_, _, _, _)
insert_visit_services(d, vs, visit_id, service_ids) ==
    IF service_ids = <<>> THEN [ok |-> TRUE, rows |-> vs]
    ELSE LET sid == Head(service_ids) IN
         IF \/ sid = Null
            \/ visit_id \notin VisitIds(d)
            \/ sid \notin {x.service_id : x \in d.services}
            \/ <<visit_id, sid>> \in vs
         THEN [ok |-> FALSE, rows |-> vs]
         ELSE insert_visit_services(d, vs \cup {<<visit_id, sid>>}, visit_id, Tail(service_ids))

\* the UPDATE of update_visit_checkout
set_checkout(d, t, visit_id, total_paid) ==
    IF visit_id \in VisitIds(d)
    THEN [d EXCEPT !.visits[visit_id].checkout_at = t, !.visits[visit_id].total_paid = total_paid]
    ELSE d

\* update_visit_checkout with a commit after the UPDATE and after each INSERT
update_visit_checkout_autocommit(d, p, created, t, visit_id, total_paid, service_ids) ==
    LET Body(q) ==
            LET d1 == set_checkout(d, t, visit_id, total_paid)
                ins == insert_visit_services(d1, d1.visit_services, visit_id, service_ids)
            IN [db |-> [d1 EXCEPT !.visit_services = ins.rows], pool |-> q, ret |-> None,
                exc |-> IF ins.ok THEN NoError ELSE "sqlite3.IntegrityError", audit |-> "none"]
    IN db_get_connection(p, created, d, Body)

\* update_visit_checkout(visit_id, total_paid, service_ids): UPDATE, the
\* INSERTs, then conn.commit(); an exception leaves before the commit
update_visit_checkout(d, p, created, t, visit_id, total_paid, service_ids) ==
    LET Body(q) ==
            LET d1 == set_checkout(d, t, visit_id, total_paid)
                ins == insert_visit_services(d1, d1.visit_services, visit_id, service_ids)
            IN IF ins.ok
               THEN [db |-> [d1 EXCEPT !.visit_services = ins.rows], pool |-> q,
                     ret |-> None, exc |-> NoError, audit |-> "none"]
               ELSE [db |-> d, pool |-> q, ret |-> None,
                     exc |-> "sqlite3.IntegrityError", audit |-> "none"]
    IN db_get_connection(p, created, d, Body)

\* remove_from_waiting whose UPDATE leaves checkout_at alone
remove_from_waiting_called(d, p, created, t, name, pick) ==
    LET Body(q) ==
            IF pick = Null
            THEN [db |-> d, pool |-> q, ret |-> None, exc |-> NoError, audit |-> "none"]
            ELSE [db |-> [d EXCEPT !.visits[pick].called_at = t,
                                   !.visits[pick].total_paid = 0],
                  pool |-> q, ret |-> None, exc |-> NoError, audit |-> "none"]
    IN except_Exception(db_get_connection(p, created, d, Body))

\* remove_from_waiting of the application, the database part: the newest
\* uncalled visit of the patient today gets checkout_at = called_at = now
\* and total_paid = 0; `except Exception` shows a message box
remove_from_waiting(d, p, created, t, name, pick) ==
    LET Body(q) ==
            IF pick = Null
            THEN [db |-> d, pool |-> q, ret |-> None, exc |-> NoError, audit |-> "none"]
            ELSE [db |-> [d EXCEPT !.visits[pick].checkout_at = t,
                                   !.visits[pick].called_at = t,
                                   !.visits[pick].total_paid = 0],
                  pool |-> q, ret |-> None, exc |-> NoError, audit |-> "none"]
    IN except_Exception(db_get_connection(p, created, d, Body))

\* ---- the projections ----
NoProjection == [waiting_queue |-> <<>>, with_doctor |-> NoPatient, visited_today |-> <<>>]

\* the loop of load_records over today's rows from row v on; ORDER BY
\* arrived_at ASC is the order of visit_id, the clock never going back
RECURSIVE load_rows(_, _, _, _)
load_rows(d, t, v, acc) ==
    IF v > Len(d.visits) THEN acc
    ELSE LET visit == d.visits[v]
             name == NameOfVisit(d, v)
         IN IF visit.date # DateOf(t) THEN load_rows(d, t, v + 1, acc)
            ELSE IF visit.called_at = Null
                 THEN load_rows(d, t, v + 1, [acc EXCEPT !.waiting_queue = Append(@, name)])
            ELSE IF visit.checkout_at = Null
                 THEN load_rows(d, t, v + 1, [acc EXCEPT !.with_doctor = name])
            ELSE load_rows(d, t, v + 1, [acc EXCEPT !.visited_today = Append(@, name)])

\* load_records that never fills with_doctor
load_records_no_doctor(d, t) ==
    [load_rows(d, t, 1, NoProjection) EXCEPT !.with_doctor = NoPatient]

\* load_records with ORDER BY v.arrived_at DESC
load_records_desc(d, t) ==
    LET r == load_rows(d, t, 1, NoProjection)
        desc(q) == [i \in 1..Len(q) |-> q[Len(q) + 1 - i]]
    IN [r EXCEPT !.waiting_queue = desc(@), !.visited_today = desc(@)]

\* load_records(): waiting_queue, with_doctor and visited_today after it ran
load_records(d, t) == load_rows(d, t, 1, NoProjection)

\* WHERE date(checkout_at) BETWEEN ? AND ?
CheckedOutBetween(d, start, end) ==
    {v \in VisitIds(d) : /\ d.visits[v].checkout_at # Null
                         /\ start <= DateOf(d.visits[v].checkout_at)
                         /\ DateOf(d.visits[v].checkout_at) <= end}

\* SUM(total_paid) over the rows of vs, NULL being skipped
RECURSIVE sum_total_paid(_, _)
sum_total_paid(d, vs) ==
    IF vs = {} THEN 0
    ELSE LET v == CHOOSE x \in vs : TRUE
             paid == d.visits[v].total_paid
         IN (IF paid = Null THEN 0 ELSE paid) + sum_total_paid(d, vs \ {v})

\* get_financial_summary without the WHERE clause
get_financial_summary_all(d, p, created, start, end) ==
    LET Body(q) ==
            [db |-> d, pool |-> q,
             ret |-> <<sum_total_paid(d, VisitIds(d)), Cardinality(VisitIds(d))>>,
             exc |-> NoError, audit |-> "none"]
        r == db_get_connection(p, created, d, Body)
    IN IF IsException(r.exc) THEN [r EXCEPT !.ret = <<0, 0>>, !.exc = NoError] ELSE r

\* ReportsManager.get_financial_summary(start_date, end_date):
\* <<total_revenue, total_visits>>; `except Exception` returns zeros
get_financial_summary(d, p, created, start, end) ==
    LET Body(q) ==
            LET rows == CheckedOutBetween(d, start, end) IN
            [db |-> d, pool |-> q,
             ret |-> <<sum_total_paid(d, rows), Cardinality(rows)>>,
             exc |-> NoError, audit |-> "none"]
        r == db_get_connection(p, created, d, Body)
    IN IF IsException(r.exc) THEN [r EXCEPT !.ret = <<0, 0>>, !.exc = NoError] ELSE r

\* ---- DatabaseManager: services and users ----
ServiceRows(d, name) == {s \in d.services : s.name = name}

\* a row of visit_services refers to a service of that name
Referenced(d, name) ==
    \E s \in ServiceRows(d, name) : \E row \in d.visit_services : row[2] = s.service_id

\* update_service(name, price, user_id): INSERT OR REPLACE INTO services
\* (name, price): the row of that name is deleted, which the foreign key of
\* visit_services forbids when it is referred to, and a row with the next
\* AUTOINCREMENT id is inserted; commit, then add_audit_log
update_service(d, p, created, name, price, audit_created, audit_ok) ==
    LET Body(q) ==
            IF Referenced(d, name)
            THEN [db |-> d, pool |-> q, ret |-> None, exc |-> "sqlite3.IntegrityError", audit |-> "none"]
            ELSE LET a == add_audit_log(q, audit_created, audit_ok) IN
                 [db |-> [d EXCEPT !.services = (d.services \ ServiceRows(d, name)) \cup
                                       {[service_id |-> d.service_seq + 1, name |-> name, price |-> price]},
                                   !.service_seq = d.service_seq + 1],
                  pool |-> a.pool, ret |-> None, exc |-> a.exc, audit |-> a.audit]
    IN except_sqlite3_Error(db_get_connection(p, created, d, Body))

\* delete_service(name, user_id): DELETE FROM services WHERE name = ?;
\* commit, then add_audit_log
delete_service(d, p, created, name, audit_created, audit_ok) ==
    LET Body(q) ==
            IF Referenced(d, name)
            THEN [db |-> d, pool |-> q, ret |-> None, exc |-> "sqlite3.IntegrityError", audit |-> "none"]
            ELSE LET a == add_audit_log(q, audit_created, audit_ok) IN
                 [db |-> [d EXCEPT !.services = d.services \ ServiceRows(d, name)],
                  pool |-> a.pool, ret |-> None, exc |-> a.exc, audit |-> a.audit]
    IN except_sqlite3_Error(db_get_connection(p, created, d, Body))

HasUser(d, username) == \E i \in 1..Len(d.users) : d.users[i].username = username

\* add_user(username, password, role): the role is checked first; the
\* INSERT violates UNIQUE(username) when the name is taken
add_user(d, p, created, username, role) ==
    IF role \notin ValidRoles
    THEN [db |-> d, pool |-> p, ret |-> None, exc |-> "ValueError", audit |-> "none"]
    ELSE LET Body(q) ==
                 IF HasUser(d, username)
                 THEN [db |-> d, pool |-> q, ret |-> None, exc |-> "sqlite3.IntegrityError",
                       audit |-> "none"]
                 ELSE [db |-> [d EXCEPT !.users = Append(d.users, [username |-> username, role |-> role])],
                       pool |-> q, ret |-> <<Len(d.users) + 1>>, exc |-> NoError, audit |-> "none"]
         IN except_sqlite3_Error(db_get_connection(p, created, d, Body))

\* ---- DatabaseManager: the schema ----
\* init_database whose ALTER TABLE re-raises every OperationalError
init_database_strict(f, p, created, locked) ==
    LET Body(q) ==
            LET script == executescript(f)
                msg == alter_message(script.schema, locked)
            IN IF script.exc # NoError
               THEN [db |-> script.schema, pool |-> q, ret |-> None, exc |-> script.exc, audit |-> "none"]
               ELSE IF msg = ""
               THEN [db |-> [script.schema EXCEPT !.columns["patients"] = @ \cup {"phone_number"}],
                     pool |-> q, ret |-> None, exc |-> NoError, audit |-> "none"]
               ELSE [db |-> script.schema, pool |-> q, ret |-> None,
                     exc |-> "sqlite3.OperationalError", audit |-> "none"]
    IN db_get_connection(p, created, f, Body)

\* init_database() on the file f: the script of CREATE ... IF NOT EXISTS,
\* then ALTER TABLE patients ADD COLUMN phone_number, whose OperationalError
\* is ignored when it says the column exists and re-raised otherwise;
\* db is the schema of the file afterwards
init_database(f, p, created, locked) ==
    LET Body(q) ==
            LET script == executescript(f)
                msg == alter_message(script.schema, locked)
            IN IF script.exc # NoError
               THEN [db |-> script.schema, pool |-> q, ret |-> None, exc |-> script.exc, audit |-> "none"]
               ELSE IF msg = ""
               THEN [db |-> [script.schema EXCEPT !.columns["patients"] = @ \cup {"phone_number"}],
                     pool |-> q, ret |-> None, exc |-> NoError, audit |-> "none"]
               ELSE IF is_duplicate_column(msg)
               THEN [db |-> script.schema, pool |-> q, ret |-> None, exc |-> NoError, audit |-> "none"]
               ELSE [db |-> script.schema, pool |-> q, ret |-> None,
                     exc |-> "sqlite3.OperationalError", audit |-> "none"]
    IN db_get_connection(p, created, f, Body)

\* ---- the application ----
\* load_services(): the services of the database, the three defaults being
\* inserted when it has none
DefaultServices ==
    {[service_id |-> 1, name |-> "Consultation", price |-> 500],
     [service_id |-> 2, name |-> "Blood Test", price |-> 1000],
     [service_id |-> 3, name |-> "X-Ray", price |-> 1500]}

load_services(d) ==
    IF d.services = {} THEN [d EXCEPT !.services = DefaultServices, !.service_seq = 3] ELSE d

\* the services ticked in the payment dialog
Selections == {<<>>, <<"Consultation">>, <<"Consultation", "X-Ray">>}

\* get_service_id(service_name): the id, None when there is no such service
get_service_id(d, name) ==
    IF \E x \in d.services : x.name = name
    THEN (CHOOSE x \in d.services : x.name = name).service_id
    ELSE Null

\* dialog.total: the prices of the ticked services added up
RECURSIVE dialog_total(_, _)
dialog_total(d, selected) ==
    IF selected = <<>> THEN 0
    ELSE (CHOOSE x \in d.services : x.name = Head(selected)).price + dialog_total(d, Tail(selected))

\* del s[i]
RemoveAt(s, i) == SubSeq(s, 1, i - 1) \o SubSeq(s, i + 1, Len(s))

\* get_current_visit(patient_name): the rows its SELECT may return, on any
\* day: called, not checked out, ORDER BY arrived_at DESC LIMIT 1
CurrentVisit(d, name) ==
    LET u == {v \in VisitIds(d) : /\ NameOfVisit(d, v) = name
                                  /\ d.visits[v].called_at # Null
                                  /\ d.visits[v].checkout_at = Null} IN
    IF u = {} THEN {Null}
    ELSE {v \in u : \A w \in u : d.visits[w].arrived_at <= d.visits[v].arrived_at}

\* what a handler of the application leaves: the database, the pool, the
\* lists; displayed: it reached update_displays(); loaded: the load_records
\* of that update_displays() read the rows
Handled(d, p, u, displayed, loaded) ==
    [db |-> d, pool |-> p, ui |-> u, displayed |-> displayed, loaded |-> loaded]

\* App.load_records that appends to the lists without clearing them
App_load_records_append(d, p, created, t, u) ==
    LET Body(q) == [db |-> d, pool |-> q, ret |-> None, exc |-> NoError, audit |-> "none"]
        r == db_get_connection(p, created, d, Body)
        l == load_records(d, t)
    IN [pool |-> r.pool, loaded |-> r.exc = NoError,
        ui |-> IF r.exc = NoError
               THEN [waiting_queue |-> u.waiting_queue \o l.waiting_queue,
                     with_doctor |-> IF l.with_doctor = NoPatient THEN u.with_doctor ELSE l.with_doctor,
                     visited_today |-> u.visited_today \o l.visited_today]
               ELSE u]

\* App.load_records(): the lists are cleared and rebuilt from today's rows;
\* `except Exception` (no connection) leaves them as they are
App_load_records(d, p, created, t, u) ==
    LET Body(q) == [db |-> d, pool |-> q, ret |-> None, exc |-> NoError, audit |-> "none"]
        r == db_get_connection(p, created, d, Body)
    IN [pool |-> r.pool, loaded |-> r.exc = NoError,
        ui |-> IF r.exc = NoError THEN load_records(d, t) ELSE u]

\* update_displays(): load_records(), then the widgets are redrawn from the
\* lists (the queries made for the labels read only)
update_displays(d, p, created, t, u) ==
    LET l == App_load_records(d, p, created, t, u) IN Handled(d, l.pool, l.ui, TRUE, l.loaded)

\* register_patient_direct(name): inside `with self.db.get_connection()`,
\* the patient is looked up or added, add_visit, waiting_queue.append(name),
\* update_displays(); a DatabaseError leaves the block and is shown
register_patient_direct(d, p, u, t, name, created, load_created) ==
    LET a == pool_get_connection(p, created) IN
    IF a.exc # NoError THEN Handled(d, a.pool, u, FALSE, FALSE)
    ELSE LET r1 == IF HasPatient(d, name)
                   THEN [db |-> d, pool |-> a.pool, ret |-> <<PatientIdOf(d, name)>>, exc |-> NoError]
                   ELSE add_patient(d, a.pool, created, name)
         IN IF r1.exc # NoError THEN Handled(r1.db, pool_close_connection(r1.pool), u, FALSE, FALSE)
            ELSE LET r2 == add_visit(r1.db, r1.pool, created, t, r1.ret[1]) IN
                 IF r2.exc # NoError THEN Handled(r2.db, pool_close_connection(r2.pool), u, FALSE, FALSE)
                 ELSE LET u1 == [u EXCEPT !.waiting_queue = Append(@, name)]
                          l == update_displays(r2.db, r2.pool, load_created, t, u1)
                      IN [l EXCEPT !.pool = pool_return_connection(l.pool)]

\* the call made whether or not with_doctor is set
call_patient_unguarded(d, p, u, t, idx, pick, created, audit_created, audit_ok, load_created, popped) ==
    LET patient == u.waiting_queue[idx]
        r == update_patient_call(d, p, created, patient, t, pick, audit_created, audit_ok)
    IN IF r.exc # NoError
       THEN Handled(r.db, r.pool,
                    IF popped THEN [u EXCEPT !.waiting_queue = RemoveAt(@, idx)] ELSE u,
                    FALSE, FALSE)
       ELSE IF r.ret = True
       THEN update_displays(r.db, r.pool, load_created, t,
                            [u EXCEPT !.waiting_queue = RemoveAt(@, idx), !.with_doctor = patient])
       ELSE Handled(r.db, r.pool, u, FALSE, FALSE)

\* the call of call_selected_patient and next_patient for the patient at
\* waiting_queue[idx]: refused while with_doctor is set; on True the entry
\* is deleted, with_doctor is set, update_displays(); on False the list is
\* as before; an exception of update_patient_call is no sqlite3.Error and
\* leaves the handler, the entry staying popped when popped is TRUE
call_patient(d, p, u, t, idx, pick, created, audit_created, audit_ok, load_created, popped) ==
    IF u.with_doctor # NoPatient THEN Handled(d, p, u, FALSE, FALSE)
    ELSE LET patient == u.waiting_queue[idx]
             r == update_patient_call(d, p, created, patient, t, pick, audit_created, audit_ok)
         IN IF r.exc # NoError
            THEN Handled(r.db, r.pool,
                         IF popped THEN [u EXCEPT !.waiting_queue = RemoveAt(@, idx)] ELSE u,
                         FALSE, FALSE)
            ELSE IF r.ret = True
            THEN update_displays(r.db, r.pool, load_created, t,
                                 [u EXCEPT !.waiting_queue = RemoveAt(@, idx), !.with_doctor = patient])
            ELSE Handled(r.db, r.pool, u, FALSE, FALSE)

\* call_selected_patient(): the selected entry idx
call_selected_patient(d, p, u, t, idx, pick, created, audit_created, audit_ok, load_created) ==
    call_patient(d, p, u, t, idx, pick, created, audit_created, audit_ok, load_created, FALSE)

\* next_patient(): waiting_queue.pop(0) is called (the process_payment() it
\* runs first returns at once, nobody being with the doctor)
next_patient(d, p, u, t, pick, created, audit_created, audit_ok, load_created) ==
    IF u.waiting_queue = <<>> THEN Handled(d, p, u, FALSE, FALSE)
    ELSE call_patient(d, p, u, t, 1, pick, created, audit_created, audit_ok, load_created, TRUE)

\* process_payment(): the current visit of with_doctor is checked out with
\* the services of the dialog (confirmed = FALSE: the dialog is cancelled);
\* then visited_today.append, with_doctor = None, update_displays()
process_payment(d, p, u, t, current, confirmed, selected, created, load_created) ==
    IF u.with_doctor = NoPatient THEN Handled(d, p, u, FALSE, FALSE)
    ELSE LET Body(q) == [db |-> d, pool |-> q, ret |-> None, exc |-> NoError, audit |-> "none"]
             g == db_get_connection(p, created, d, Body)
         IN IF g.exc # NoError \/ current = Null \/ ~confirmed THEN Handled(d, g.pool, u, FALSE, FALSE)
            ELSE LET service_ids == [i \in 1..Len(selected) |-> get_service_id(d, selected[i])]
                     r == update_visit_checkout(d, g.pool, created, t, current,
                                                dialog_total(d, selected), service_ids)
                 IN IF r.exc # NoError THEN Handled(r.db, r.pool, u, FALSE, FALSE)
                    ELSE update_displays(r.db, r.pool, load_created, t,
                                         [u EXCEPT !.visited_today = Append(@, u.with_doctor),
                                                   !.with_doctor = NoPatient])

\* remove_from_waiting(), confirmed: del waiting_queue[idx], the cancel in
\* the database, update_displays(); `except Exception` (no connection)
\* shows a message and the entry stays deleted
App_remove_from_waiting(d, p, u, t, idx, pick, created, load_created) ==
    LET patient == u.waiting_queue[idx]
        u1 == [u EXCEPT !.waiting_queue = RemoveAt(@, idx)]
        r == remove_from_waiting(d, p, created, t, patient, pick)
    IN IF Obtained(p, created)
       THEN update_displays(r.db, r.pool, load_created, t, u1)
       ELSE Handled(r.db, r.pool, u1, FALSE, FALSE)

\* ---- the data-access calls as steps ----
\* what the SELECT of a call may return: a visit_id, or no row
Picks == 1..MaxVisits \cup {Null}
\* the days of the clock
Dates == 0..(MaxNow \div TicksPerDay)

\* a call with outcome r: what it committed and what became of the pool;
\* the guard bounds the connections closed on errors
Call(r) ==
    /\ r.pool.active >= DbMinConnections - MaxClosed
    /\ db' = r.db
    /\ db_pool' = r.pool
    /\ UNCHANGED <<now, schema, ui, pool_vars, hist_vars>>

\* time passes
tick ==
    /\ now < MaxNow
    /\ now' = now + 1
    /\ UNCHANGED <<db, db_pool, schema, ui, pool_vars, hist_vars>>

call_add_patient(created, name) ==
    /\ name \in PatientNames \cup {""}
    /\ Call(add_patient(db, db_pool, created, name))

call_add_visit(created, patient_id) ==
    /\ Len(db.visits) < MaxVisits
    /\ Call(add_visit(db, db_pool, created, now, patient_id))

call_update_patient_call(created, name, pick, audit_created, audit_ok) ==
    /\ pick \in NewestUncalled(db, now, name)
    /\ Call(update_patient_call(db, db_pool, created, name, now, pick, audit_created, audit_ok))

call_update_visit_checkout(created, visit_id, total_paid, service_ids) ==
    /\ service_ids \in ServiceIdLists
    /\ Call(update_visit_checkout(db, db_pool, created, now, visit_id, total_paid, service_ids))

call_remove_from_waiting(created, name, pick) ==
    /\ pick \in NewestUncalled(db, now, name)
    /\ Call(remove_from_waiting(db, db_pool, created, now, name, pick))

call_get_financial_summary(created, start, end) ==
    /\ start \in Dates /\ end \in Dates
    /\ Call(get_financial_summary(db, db_pool, created, start, end))

call_update_service(created, name, price, audit_created, audit_ok) ==
    /\ db.service_seq < MaxServiceSeq
    /\ Call(update_service(db, db_pool, created, name, price, audit_created, audit_ok))

call_delete_service(created, name, audit_created, audit_ok) ==
    /\ name \in ServiceNames
    /\ Call(delete_service(db, db_pool, created, name, audit_created, audit_ok))

call_add_user(created, username, role) ==
    /\ username \in UserNames
    /\ Call(add_user(db, db_pool, created, username, role))

\* init_database() runs on the file
call_init_database(created, locked) ==
    LET r == init_database(schema, db_pool, created, locked) IN
    /\ r.pool.active >= DbMinConnections - MaxClosed
    /\ schema' = r.db
    /\ db_pool' = r.pool
    /\ UNCHANGED <<now, db, ui, pool_vars, hist_vars>>

\* the data-access layer on a database that init_database has just created;
\* the variables of the fine-grained pool model above stay at an initial state
DbInit == Init /\ max_connections = 1 /\ min_connections = 0

\* the visit lifecycle over time; no service is ever defined
VisitNext ==
    \/ tick
    \/ \E created \in BOOLEAN : \E name \in PatientNames \cup {""} : call_add_patient(created, name)
    \/ \E created \in BOOLEAN : \E patient_id \in 1..Cardinality(PatientNames) :
          call_add_visit(created, patient_id)
    \/ \E created, audit_created, audit_ok \in BOOLEAN : \E name \in PatientNames : \E pick \in Picks :
          call_update_patient_call(created, name, pick, audit_created, audit_ok)
    \/ \E created \in BOOLEAN : \E visit_id \in 1..MaxVisits : \E total_paid \in Amounts :
          \E service_ids \in ServiceIdLists :
             call_update_visit_checkout(created, visit_id, total_paid, service_ids)
    \/ \E created \in BOOLEAN : \E name \in PatientNames : \E pick \in Picks :
          call_remove_from_waiting(created, name, pick)
    \/ \E created \in BOOLEAN : \E start, end \in Dates : call_get_financial_summary(created, start, end)

VisitSpec == DbInit /\ [][VisitNext]_vars

\* arrivals and calls over time
ArrivalNext ==
    \/ tick
    \/ \E created \in BOOLEAN : \E name \in PatientNames \cup {""} : call_add_patient(created, name)
    \/ \E created \in BOOLEAN : \E patient_id \in 1..Cardinality(PatientNames) :
          call_add_visit(created, patient_id)
    \/ \E created, audit_created, audit_ok \in BOOLEAN : \E name \in PatientNames : \E pick \in Picks :
          call_update_patient_call(created, name, pick, audit_created, audit_ok)

ArrivalSpec == DbInit /\ [][ArrivalNext]_vars

\* services and checkouts within one tick of the clock
CheckoutNext ==
    \/ \E created \in BOOLEAN : \E name \in PatientNames \cup {""} : call_add_patient(created, name)
    \/ \E created \in BOOLEAN : \E patient_id \in 1..Cardinality(PatientNames) :
          call_add_visit(created, patient_id)
    \/ \E created \in BOOLEAN : \E visit_id \in 1..MaxVisits : \E total_paid \in Amounts :
          \E service_ids \in ServiceIdLists :
             call_update_visit_checkout(created, visit_id, total_paid, service_ids)
    \/ \E created, audit_created, audit_ok \in BOOLEAN : \E name \in ServiceNames : \E price \in Prices :
          call_update_service(created, name, price, audit_created, audit_ok)

CheckoutSpec == DbInit /\ [][CheckoutNext]_vars

\* the audited operations within one tick of the clock
AuditNext ==
    \/ \E created \in BOOLEAN : \E name \in PatientNames \cup {""} : call_add_patient(created, name)
    \/ \E created \in BOOLEAN : \E patient_id \in 1..Cardinality(PatientNames) :
          call_add_visit(created, patient_id)
    \/ \E created, audit_created, audit_ok \in BOOLEAN : \E name \in PatientNames : \E pick \in Picks :
          call_update_patient_call(created, name, pick, audit_created, audit_ok)
    \/ \E created, audit_created, audit_ok \in BOOLEAN : \E name \in ServiceNames : \E price \in Prices :
          call_update_service(created, name, price, audit_created, audit_ok)
    \/ \E created, audit_created, audit_ok \in BOOLEAN : \E name \in ServiceNames :
          call_delete_service(created, name, audit_created, audit_ok)

AuditSpec == DbInit /\ [][AuditNext]_vars

\* user management
UserNext ==
    \E created \in BOOLEAN : \E username \in UserNames : \E role \in Roles :
        call_add_user(created, username, role)

UserSpec == DbInit /\ [][UserNext]_vars

\* ---- the handlers of the application as steps ----
\* a handler with outcome r
Handle(r) ==
    /\ ui.started
    /\ r.pool.active >= DbMinConnections - MaxClosed
    /\ db' = r.db
    /\ db_pool' = r.pool
    /\ ui' = [ui EXCEPT !.lists = r.ui]
    /\ UNCHANGED <<now, schema, pool_vars, hist_vars>>

\* setup_application(): load_services(), load_records(), then the window
setup_application ==
    /\ ~ui.started
    /\ db' = load_services(db)
    /\ ui' = [started |-> TRUE, lists |-> load_records(load_services(db), now)]
    /\ UNCHANGED <<now, db_pool, schema, pool_vars, hist_vars>>

\* schedule_next_update(): the refresh of every five seconds
schedule_next_update(created) ==
    /\ TRUE
    /\ Handle(update_displays(db, db_pool, created, now, ui.lists))

do_register_patient_direct(name, created, load_created) ==
    /\ Len(db.visits) < MaxVisits
    /\ Handle(register_patient_direct(db, db_pool, ui.lists, now, name, created, load_created))

do_call_selected_patient(idx, pick, created, audit_created, audit_ok, load_created) ==
    /\ idx \in 1..Len(ui.lists.waiting_queue)
    /\ pick \in NewestUncalled(db, now, ui.lists.waiting_queue[idx])
    /\ Handle(call_selected_patient(db, db_pool, ui.lists, now, idx, pick, created,
                                    audit_created, audit_ok, load_created))

do_next_patient(pick, created, audit_created, audit_ok, load_created) ==
    /\ ui.lists.waiting_queue # <<>>
    /\ pick \in NewestUncalled(db, now, ui.lists.waiting_queue[1])
    /\ Handle(next_patient(db, db_pool, ui.lists, now, pick, created, audit_created, audit_ok,
                           load_created))

do_process_payment(current, confirmed, selected, created, load_created) ==
    /\ ui.lists.with_doctor # NoPatient
    /\ current \in CurrentVisit(db, ui.lists.with_doctor)
    /\ Handle(process_payment(db, db_pool, ui.lists, now, current, confirmed, selected, created,
                              load_created))

do_remove_from_waiting(idx, pick, created, load_created) ==
    /\ idx \in 1..Len(ui.lists.waiting_queue)
    /\ pick \in NewestUncalled(db, now, ui.lists.waiting_queue[idx])
    /\ Handle(App_remove_from_waiting(db, db_pool, ui.lists, now, idx, pick, created, load_created))

\* the application from its start: the receptionist and the doctor at work
UiNext ==
    \/ setup_application
    \/ tick
    \/ \E created \in BOOLEAN : schedule_next_update(created)
    \/ \E name \in PatientNames : \E created, load_created \in BOOLEAN :
          do_register_patient_direct(name, created, load_created)
    \/ \E idx \in 1..MaxVisits : \E pick \in Picks :
       \E created, audit_created, audit_ok, load_created \in BOOLEAN :
          do_call_selected_patient(idx, pick, created, audit_created, audit_ok, load_created)
    \/ \E pick \in Picks : \E created, audit_created, audit_ok, load_created \in BOOLEAN :
          do_next_patient(pick, created, audit_created, audit_ok, load_created)
    \/ \E current \in Picks : \E confirmed, created, load_created \in BOOLEAN :
       \E selected \in Selections :
          do_process_payment(current, confirmed, selected, created, load_created)
    \/ \E idx \in 1..MaxVisits : \E pick \in Picks : \E created, load_created \in BOOLEAN :
          do_remove_from_waiting(idx, pick, created, load_created)

UiSpec == DbInit /\ [][UiNext]_vars

\* the database files that a release before this one, or an interrupted
\* start, may have left: any of the tables, patients with or without
\* phone_number, any of the indexes of the tables there are
OlderFiles ==
    {f \in {[columns |-> [t \in TableNames |->
                             IF t \notin present THEN {}
                             ELSE IF t = "patients" /\ ~phone THEN CurrentColumns[t] \ {"phone_number"}
                             ELSE CurrentColumns[t]],
             indexes |-> idx] :
                present \in SUBSET TableNames, phone \in BOOLEAN, idx \in SUBSET IndexNames} :
        /\ f # FreshSchema
        /\ \A i \in 1..Len(IndexStatements) :
              IndexStatements[i].name \in f.indexes => f.columns[IndexStatements[i].table] # {}}

\* DatabaseManager.__init__ has built the pool and is about to run
\* init_database on an older file
SchemaInit == \E file \in OlderFiles : InitOn(file) /\ max_connections = 1 /\ min_connections = 0

\* init_database runs, at construction and again
SchemaNext == \E created, locked \in BOOLEAN : call_init_database(created, locked)

SchemaSpec == SchemaInit /\ [][SchemaNext]_vars

\* ---- the claims ----
InBody == {c \in Callers : pc[c] = "body"}
CheckedOut == {held[c] : c \in InBody}

\* C1: the number of connections checked out at the same time never
\* exceeds max_connections.
C1_MaxOutstanding == Cardinality(InBody) <= max_connections

\* C2: after max_connections successful get_connection() calls with no
\* release in between, one more get_connection() does not return a
\* connection: no run of successful calls is longer than max_connections.
C2_ExhaustedAfterMax == gets_since_release <= max_connections

\* C3: a connection whose probe failed in return_connection() is closed, is
\* not on the idle queue, and no caller holds it afterwards.
C3_FailedProbeNeverReused ==
    \A k \in failed_probe :
        /\ conn_state[k] = "closed"
        /\ k \notin Range(pool)
        /\ \A c \in Callers : held[c] # k

\* a probe has failed and a later get_connection() has returned a connection
C3_Witness ==
    /\ failed_probe # {}
    /\ \E c \in Callers : pc[c] = "body" /\ held[c] \notin failed_probe

\* C4: no connection is held by two callers at once, and a connection a
\* caller holds is not on the idle queue where another get_connection()
\* could take it.
C4_NoSharedConnection ==
    /\ \A c1, c2 \in InBody : c1 # c2 => held[c1] # held[c2]
    /\ \A c \in InBody : held[c] \notin Range(pool)

\* two scopes overlap
C4_Witness == \E c1, c2 \in InBody : c1 # c2 /\ held[c1] # NoConn /\ held[c2] # NoConn

\* C5: whenever the body of a scope exits, normally or by any exception, its
\* connection is back on the idle queue or closed.
C5_ScopeExitReleases ==
    [][\A c \in Callers :
          (pc[c] = "body" /\ pc'[c] # "body") =>
              (held[c] \in Range(pool') \/ conn_state'[held[c]] = "closed")]_vars

\* C6: if the body raises, the connection is closed, is not put on the
\* queue, active_connections goes down by exactly one and the exception
\* reaches the caller; if it does not raise, the connection goes through
\* return_connection() (enqueued, or closed with the count decremented).
C6_RaiseClosesAndReraises ==
    [][\A c \in Callers :
          /\ (pc[c] = "body" /\ pc'[c] = "error") =>
                /\ conn_state'[held[c]] = "closed"
                /\ pool' = pool
                /\ active_connections' = active_connections - 1
                /\ raised'[c] \in BodyExceptions
          /\ (pc[c] = "body" /\ pc'[c] = "done") =>
                \/ pool' = Append(pool, held[c]) /\ active_connections' = active_connections
                \/ /\ pool' = pool
                   /\ conn_state'[held[c]] = "closed"
                   /\ active_connections' = active_connections - 1]_vars

\* C7: active_connections equals the number of open connections that are
\* idle on the queue or checked out by a caller.
C7_CountMatchesOpen ==
    active_connections =
        Cardinality({k \in Ids : conn_state[k] = "open" /\ k \in Range(pool) \cup CheckedOut})

\* C8: after close_all() the idle queue is empty, every connection that was
\* on it is closed, and active_connections is 0.
C8_CloseAllZeroes ==
    [][close_all =>
          /\ pool' = <<>>
          /\ \A k \in Range(pool) : conn_state'[k] = "closed"
          /\ active_connections' = 0]_vars

\* C9: every get_connection() call ends, with a connection or with an
\* error, and after the timeout it does not wait on the queue again.
C9_GetTerminates ==
    /\ \A c \in Callers : (pc[c] \in {"getting", "timedout"}) ~> (pc[c] \in {"body", "error"})
    /\ [][\A c \in Callers : pc[c] = "timedout" => pc'[c] \in {"timedout", "body", "error"}]_vars

\* a get_connection() ended with the pool-exhausted error while another
\* caller was holding a connection
C9_Witness ==
    \E c, d \in Callers : c # d /\ pc[c] = "error" /\ raised[c] = "ConnectionError" /\ pc[d] = "body"

VisitsToday(d, t, name) ==
    {v \in VisitIds(d) : NameOfVisit(d, v) = name /\ d.visits[v].date = DateOf(t)}

\* a row that load_records assigns to with_doctor
InConsultation(d, v) == d.visits[v].called_at # Null /\ d.visits[v].checkout_at = Null

\* the number of entries of a list that equal x
Count(s, x) == Cardinality({i \in 1..Len(s) : s[i] = x})

\* which of the three projections of load_records hold the name
Projections(d, t, name) ==
    LET r == load_records(d, t) IN
    [waiting |-> name \in Range(r.waiting_queue),
     doctor |-> r.with_doctor = name,
     visited |-> name \in Range(r.visited_today)]

\* visit v of the patient is in the projection of its stage and in no other
Classified(d, t, v, name) ==
    LET row == d.visits[v]
        pr == Projections(d, t, name)
    IN /\ (row.called_at = Null /\ row.checkout_at = Null) =>
              pr = [waiting |-> TRUE, doctor |-> FALSE, visited |-> FALSE]
       /\ (row.called_at # Null /\ row.checkout_at = Null) =>
              pr = [waiting |-> FALSE, doctor |-> TRUE, visited |-> FALSE]
       /\ (row.called_at # Null /\ row.checkout_at # Null) =>
              pr = [waiting |-> FALSE, doctor |-> FALSE, visited |-> TRUE]

\* C11, as stated: for a patient with exactly one visit today, load_records
\* classifies the visit as Waiting after add_visit, as with_doctor after
\* update_patient_call and as visited_today after update_visit_checkout, and
\* the patient is in exactly one of the three projections at each step.
C11_LifecycleProjection ==
    \A name \in PatientNames : \A v \in VisitsToday(db, now, name) :
        VisitsToday(db, now, name) = {v} => Classified(db, now, v, name)

\* C11, amended: the same, provided no other visit of today is called and
\* not checked out (with_doctor holds one name, the last such row).
C11_LifecycleProjectionAlone ==
    \A name \in PatientNames : \A v \in VisitsToday(db, now, name) :
        (/\ VisitsToday(db, now, name) = {v}
         /\ \A w \in VisitIds(db) \ {v} :
               ~(db.visits[w].date = DateOf(now) /\ InConsultation(db, w)))
        => Classified(db, now, v, name)

\* a patient's only visit of today is with the doctor while another
\* patient's visit of today has been checked out
C11_Witness ==
    \E name \in PatientNames : \E v \in VisitsToday(db, now, name) :
        /\ VisitsToday(db, now, name) = {v}
        /\ InConsultation(db, v)
        /\ \E w \in VisitIds(db) \ {v} :
              db.visits[w].date = DateOf(now) /\ db.visits[w].checkout_at # Null

\* the service ids are distinct and each is the id of a service
DistinctExisting(d, service_ids) ==
    /\ \A i, j \in 1..Len(service_ids) : service_ids[i] = service_ids[j] => i = j
    /\ \A i \in 1..Len(service_ids) : service_ids[i] \in {s.service_id : s \in d.services}

\* the rows of visit_services of a visit
RowsOfVisit(d, visit_id) == {row \in d.visit_services : row[1] = visit_id}

\* the postcondition of a checkout that succeeded
CheckedOutWith(d, visit_id, total_paid, service_ids) ==
    /\ d.visits[visit_id].checkout_at # Null
    /\ d.visits[visit_id].total_paid = total_paid
    /\ RowsOfVisit(d, visit_id) = {<<visit_id, service_ids[i]>> : i \in 1..Len(service_ids)}

\* C12, as stated: after update_visit_checkout(visit_id, total_paid,
\* service_ids) succeeds with distinct, existing service ids, the visit has
\* checkout_at set and total_paid equal to the argument, and visit_services
\* holds exactly the rows (visit_id, s), s in service_ids, for that visit.
C12_CheckoutRows ==
    \A created \in BOOLEAN : \A visit_id \in VisitIds(db) : \A total_paid \in Amounts :
    \A service_ids \in ServiceIdLists :
        LET r == update_visit_checkout(db, db_pool, created, now, visit_id, total_paid, service_ids) IN
        (r.exc = NoError /\ DistinctExisting(db, service_ids))
        => CheckedOutWith(r.db, visit_id, total_paid, service_ids)

\* C12, amended: the same, provided the visit has no row in visit_services
\* before the call, as is the case for a visit that was not checked out.
C12_FirstCheckoutRows ==
    \A created \in BOOLEAN : \A visit_id \in VisitIds(db) : \A total_paid \in Amounts :
    \A service_ids \in ServiceIdLists :
        LET r == update_visit_checkout(db, db_pool, created, now, visit_id, total_paid, service_ids) IN
        (r.exc = NoError /\ DistinctExisting(db, service_ids) /\ RowsOfVisit(db, visit_id) = {})
        => CheckedOutWith(r.db, visit_id, total_paid, service_ids)

\* a visit has been checked out with two services
C12_Witness ==
    \E v \in VisitIds(db) :
        /\ db.visits[v].checkout_at # Null
        /\ db.visits[v].total_paid \in Amounts
        /\ Cardinality(RowsOfVisit(db, v)) = 2

\* C13: each successful add_visit adds exactly one row for the patient, with
\* today's date, called_at NULL and checkout_at NULL, and changes nothing
\* else; the patient has one more Waiting entry, also when they already had
\* one, so that k arrivals without a call are k Waiting entries.
C13_AddVisitOneRow ==
    /\ \A created \in BOOLEAN : \A patient_id \in 1..Cardinality(PatientNames) :
          LET r == add_visit(db, db_pool, created, now, patient_id)
              n == Len(db.visits)
          IN r.exc = NoError =>
                /\ Len(r.db.visits) = n + 1
                /\ [r.db EXCEPT !.visits = SubSeq(r.db.visits, 1, n)] = db
                /\ r.db.visits[n + 1].patient_id = patient_id
                /\ r.db.visits[n + 1].date = DateOf(now)
                /\ r.db.visits[n + 1].called_at = Null
                /\ r.db.visits[n + 1].checkout_at = Null
                /\ Count(load_records(r.db, now).waiting_queue, db.patients[patient_id])
                      = Count(load_records(db, now).waiting_queue, db.patients[patient_id]) + 1
    /\ \A name \in PatientNames :
          (HasPatient(db, name) /\ UncalledToday(db, now, name) = VisitsToday(db, now, name))
          => Count(load_records(db, now).waiting_queue, name)
                = Cardinality(VisitsToday(db, now, name))

\* a patient has arrived twice today and has not been called
C13_Witness ==
    \E name \in PatientNames :
        /\ HasPatient(db, name)
        /\ Cardinality(UncalledToday(db, now, name)) = 2
        /\ Count(load_records(db, now).waiting_queue, name) = 2

\* C14: update_patient_call, when the patient has a visit today with
\* called_at NULL, sets called_at = call_time on exactly one visit, one with
\* the greatest arrived_at among those, returns True, and leaves every other
\* row unchanged (the connection being obtained).
C14_CallNewest ==
    \A created, audit_created, audit_ok \in BOOLEAN : \A name \in PatientNames :
    \A call_time \in 0..MaxNow :
        (HasPatient(db, name) /\ UncalledToday(db, now, name) # {} /\ Obtained(db_pool, created)) =>
            \A pick \in NewestUncalled(db, now, name) :
                LET r == update_patient_call(db, db_pool, created, name, call_time, pick,
                                             audit_created, audit_ok)
                IN /\ r.ret = True
                   /\ r.exc = NoError
                   /\ \E v \in UncalledToday(db, now, name) :
                         /\ \A w \in UncalledToday(db, now, name) :
                               db.visits[w].arrived_at <= db.visits[v].arrived_at
                         /\ r.db = [db EXCEPT !.visits[v].called_at = call_time]

\* the later of a patient's two visits of today has been called, the
\* earlier one has not
C14_Witness ==
    \E v, w \in VisitIds(db) :
        /\ db.visits[v].patient_id = db.visits[w].patient_id
        /\ db.visits[v].date = DateOf(now) /\ db.visits[w].date = DateOf(now)
        /\ db.visits[w].arrived_at < db.visits[v].arrived_at
        /\ db.visits[v].called_at # Null /\ db.visits[v].checkout_at = Null
        /\ db.visits[w].called_at = Null

\* C15: update_patient_call for a patient with no visit today whose
\* called_at is NULL returns False, raises nothing and leaves every row
\* unchanged (the connection being obtained).
C15_NothingToCall ==
    \A created, audit_created, audit_ok \in BOOLEAN : \A name \in PatientNames :
    \A call_time \in 0..MaxNow :
        (UncalledToday(db, now, name) = {} /\ Obtained(db_pool, created)) =>
            \A pick \in NewestUncalled(db, now, name) :
                LET r == update_patient_call(db, db_pool, created, name, call_time, pick,
                                             audit_created, audit_ok)
                IN r.ret = False /\ r.exc = NoError /\ r.db = db

\* every visit of a patient today has been called: a further call finds none
C15_Witness ==
    \E name \in PatientNames :
        /\ HasPatient(db, name)
        /\ VisitsToday(db, now, name) # {}
        /\ UncalledToday(db, now, name) = {}

RECURSIVE PaidBetween(_, _, _, _)
PaidBetween(d, n, start, end) ==
    IF n = 0 THEN 0
    ELSE PaidBetween(d, n - 1, start, end) +
         (IF /\ d.visits[n].checkout_at # Null
             /\ DateOf(d.visits[n].checkout_at) \in start..end
          THEN d.visits[n].total_paid ELSE 0)

\* the only visit was called and checked out today with total_paid 1500
OneVisitPaid1500 ==
    /\ Len(db.visits) = 1
    /\ db.visits[1].called_at # Null
    /\ db.visits[1].checkout_at # Null
    /\ DateOf(db.visits[1].checkout_at) = DateOf(now)
    /\ db.visits[1].total_paid = 1500

\* C17: get_financial_summary(start, end) returns the sum of total_paid and
\* the number of the visits whose checkout date lies in [start, end], zeros
\* when there is none (the connection being obtained); after one arrival,
\* call and checkout with total_paid 1500 and no other visit it returns
\* total_revenue 1500 and total_visits 1 for today.
C17_SummaryOfRange ==
    /\ \A created \in BOOLEAN : \A start, end \in Dates :
          Obtained(db_pool, created) =>
              LET r == get_financial_summary(db, db_pool, created, start, end)
                  rows == {v \in VisitIds(db) : /\ db.visits[v].checkout_at # Null
                                                /\ DateOf(db.visits[v].checkout_at) \in start..end}
              IN /\ r.ret = <<PaidBetween(db, Len(db.visits), start, end), Cardinality(rows)>>
                 /\ rows = {} => r.ret = <<0, 0>>
                 /\ r.db = db
    /\ OneVisitPaid1500 =>
          get_financial_summary(db, db_pool, TRUE, DateOf(now), DateOf(now)).ret = <<1500, 1>>

\* one arrival, call and checkout with 1500 on the second day
C17_Witness == OneVisitPaid1500 /\ DateOf(now) > 0

\* an INSERT of the call fails: a repeated id, or an id with no service
InsertFails(d, service_ids) ==
    \/ \E i, j \in 1..Len(service_ids) : i # j /\ service_ids[i] = service_ids[j]
    \/ \E i \in 1..Len(service_ids) : service_ids[i] \notin {s.service_id : s \in d.services}

\* C18: update_visit_checkout is all-or-nothing: if an INSERT into
\* visit_services fails (a repeated service id, or an id with no service),
\* the call raises, the visit's checkout_at and total_paid are as before and
\* no row of the call is stored.
C18_CheckoutAllOrNothing ==
    \A created \in BOOLEAN : \A visit_id \in VisitIds(db) : \A total_paid \in Amounts :
    \A service_ids \in ServiceIdLists :
        LET r == update_visit_checkout(db, db_pool, created, now, visit_id, total_paid, service_ids) IN
        (Obtained(db_pool, created) /\ InsertFails(db, service_ids)) =>
            /\ r.exc # NoError
            /\ r.db.visits[visit_id].checkout_at = db.visits[visit_id].checkout_at
            /\ r.db.visits[visit_id].total_paid = db.visits[visit_id].total_paid
            /\ r.db.visit_services = db.visit_services

\* a call has failed and closed its connection while a service exists and a
\* visit is not checked out
C18_Witness ==
    /\ db_pool.active < DbMinConnections
    /\ db.services # {}
    /\ \E v \in VisitIds(db) : db.visits[v].checkout_at = Null /\ db.visits[v].total_paid = Null

\* C19: for update_patient_call, update_service and delete_service: when
\* the write of add_audit_log fails (its INSERT fails, or the pool cannot
\* give it a connection), the operation returns its normal result, its
\* change is committed and no exception reaches the caller.  The pool of
\* DatabaseManager never reaches max_connections.
C19_AuditFailureSwallowed ==
    /\ db_pool.active < DbMaxConnections
    /\ \A created, audit_created, audit_ok \in BOOLEAN :
          Obtained(db_pool, created) =>
             /\ \A name \in PatientNames : \A pick \in NewestUncalled(db, now, name) :
                   LET r == update_patient_call(db, db_pool, created, name, now, pick,
                                                audit_created, audit_ok)
                   IN (pick # Null /\ r.audit # "written") =>
                         /\ r.exc = NoError
                         /\ r.ret = True
                         /\ r.db = [db EXCEPT !.visits[pick].called_at = now]
             /\ \A name \in ServiceNames : \A price \in Prices :
                   LET r == update_service(db, db_pool, created, name, price, audit_created, audit_ok)
                   IN (~Referenced(db, name) /\ r.audit # "written") =>
                         /\ r.exc = NoError
                         /\ r.ret = None
                         /\ \E s \in r.db.services : s.name = name /\ s.price = price
             /\ \A name \in ServiceNames :
                   LET r == delete_service(db, db_pool, created, name, audit_created, audit_ok)
                   IN (~Referenced(db, name) /\ r.audit # "written") =>
                         /\ r.exc = NoError
                         /\ r.ret = None
                         /\ ServiceRows(r.db, name) = {}

\* the idle queue holds one connection, so that add_audit_log has to have
\* one created, while a patient waits and a service is defined
C19_Witness ==
    /\ db_pool.idle = 1
    /\ db.services # {}
    /\ \E name \in PatientNames : HasPatient(db, name) /\ UncalledToday(db, now, name) # {}

\* C20: add_user with a username that exists already raises
\* DatabaseOperationError, not a connection-class error, and leaves the
\* users table unchanged.
C20_DuplicateUserIsOperationError ==
    \A created \in BOOLEAN : \A username \in UserNames : \A role \in ValidRoles :
        (HasUser(db, username) /\ Obtained(db_pool, created)) =>
            LET r == add_user(db, db_pool, created, username, role) IN
            r.exc = "DatabaseOperationError" /\ r.db.users = db.users

\* ---- further claims on the pool ----
\* the connections that are open
OpenConnections == {k \in Ids : conn_state[k] = "open"}

\* C23: after construction with min_connections <= max_connections, the
\* pool keeps at least min_connections open connections in every later
\* state, whatever normal scopes, raising scopes and failed probes occur.
C23_KeepsMinimum ==
    min_connections <= max_connections => Cardinality(OpenConnections) >= min_connections

\* C24: a connection that is checked out when close_all() runs is never put
\* back on the idle queue: once its holder has released it, it is closed.
C24_HeldAtCloseSelfTerminates ==
    \A k \in held_at_close :
        /\ k \notin Range(pool)
        /\ k \in CheckedOut \/ conn_state[k] = "closed"

\* C25: when return_connection() is given a live connection while the idle
\* queue holds max_connections connections, it closes the connection and
\* decrements active_connections by one, and the queue is unchanged.
C25_FullQueueClosesAndUncounts ==
    [][\A c \in Callers :
          (/\ pc[c] = "body" /\ pc'[c] = "done"
           /\ Len(pool) >= max_connections
           /\ held[c] \notin failed_probe')
          => /\ conn_state'[held[c]] = "closed"
             /\ active_connections' = active_connections - 1
             /\ pool' = pool]_vars

\* a caller is about to return a live connection while another caller's
\* return has filled the idle queue
C25_Witness ==
    \E c, d \in Callers :
        /\ c # d
        /\ pc[c] = "body" /\ conn_state[held[c]] = "open"
        /\ pc[d] = "done"
        /\ Len(pool) = max_connections

\* C28: active_connections is never negative.
C28_CountNeverNegative == active_connections >= 0

\* ---- further claims on the data-access layer ----
\* no two rows of patients have the same name
UniqueNames(d) == \A i, j \in PatientIds(d) : d.patients[i] = d.patients[j] => i = j

\* C21: add_patient(name, phone) returns a patient id when no patient has
\* that name and reports a duplicate error when a patient of exactly that
\* name exists; in both cases patients never holds two rows of one name.
C21_DuplicateIsError ==
    /\ UniqueNames(db)
    /\ \A created \in BOOLEAN : \A name \in PatientNames :
          Obtained(db_pool, created) =>
              LET r == add_patient(db, db_pool, created, name) IN
              /\ UniqueNames(r.db)
              /\ ~HasPatient(db, name) =>
                    /\ r.exc = NoError
                    /\ r.ret = <<PatientIdOf(r.db, name)>>
              /\ HasPatient(db, name) =>
                    /\ r.exc = "DatabaseOperationError"
                    /\ r.db = db

\* C22: running init_database twice on the same database raises no error
\* the second time and leaves the tables, columns and indexes of the first
\* run; the ALTER TABLE that adds phone_number raises "duplicate column
\* name" the second time, which is swallowed (no other process holding a lock).
C22_InitIdempotent ==
    \A created1, created2 \in BOOLEAN :
        LET first == init_database(schema, db_pool, created1, FALSE) IN
        first.exc = NoError =>
            LET second == init_database(first.db, first.pool, created2, FALSE) IN
            /\ second.exc = NoError
            /\ second.db = first.db
            /\ is_duplicate_column(alter_message(executescript(first.db).schema, FALSE))
            /\ first.db = FreshSchema

\* init_database has brought an older file to the schema of this release
C22_Witness == schema = FreshSchema

\* ---- the claims on the application ----
\* today's visits that are called and not checked out
InConsultationToday(d, t) ==
    {v \in VisitIds(d) : d.visits[v].date = DateOf(t) /\ InConsultation(d, v)}

\* C27: under the transitions of the application (call_selected_patient and
\* next_patient refuse to call while with_doctor is set, load_records
\* rebuilds with_doctor), at most one of today's visits has called_at set
\* and checkout_at NULL in any reachable state.
C27_AtMostOneInConsultation == Cardinality(InConsultationToday(db, now)) <= 1

\* a state of the application with the doctor busy while a patient waits:
\* a further call is refused
C27_Witness ==
    /\ ui.started
    /\ ui.lists.with_doctor # NoPatient
    /\ ui.lists.waiting_queue # <<>>
    /\ Cardinality(InConsultationToday(db, now)) = 1

\* the outcome of a handler that reached update_displays(), the
\* load_records of which read the rows, is the projection of the rows
Projected(r) == (r.displayed /\ r.loaded) => r.ui = load_records(r.db, now)

\* C26: after register_patient_direct, call_selected_patient, process_payment
\* or remove_from_waiting completes and the load_records of its
\* update_displays succeeds, waiting_queue, with_doctor and visited_today are
\* what load_records derives from today's rows alone.
C26_ListsAreProjection ==
    ui.started =>
    \A created, load_created \in BOOLEAN :
        /\ \A name \in PatientNames :
              Projected(register_patient_direct(db, db_pool, ui.lists, now, name, created, load_created))
        /\ \A idx \in 1..Len(ui.lists.waiting_queue) :
           \A pick \in NewestUncalled(db, now, ui.lists.waiting_queue[idx]) :
              /\ \A audit_created, audit_ok \in BOOLEAN :
                    Projected(call_selected_patient(db, db_pool, ui.lists, now, idx, pick, created,
                                                    audit_created, audit_ok, load_created))
              /\ Projected(App_remove_from_waiting(db, db_pool, ui.lists, now, idx, pick, created,
                                                   load_created))
        /\ \A current \in CurrentVisit(db, ui.lists.with_doctor) : \A confirmed \in BOOLEAN :
           \A selected \in Selections :
              Projected(process_payment(db, db_pool, ui.lists, now, current, confirmed, selected,
                                        created, load_created))

\* the lists are the projection of the rows while a patient is with the
\* doctor and another has been checked out today
C26_Witness ==
    /\ ui.started
    /\ ui.lists = load_records(db, now)
    /\ ui.lists.with_doctor # NoPatient
    /\ ui.lists.visited_today # <<>>

\* the lifecycle of a row does not go backwards in the step
Forward(old, new) ==
    /\ old.called_at # Null => new.called_at = old.called_at
    /\ old.checkout_at # Null => new.checkout_at # Null

\* C29: for any sequence of add_visit, update_patient_call,
\* update_visit_checkout and the cancel of remove_from_waiting, no row is
\* deleted, called_at once set is never changed, and checkout_at once set
\* never becomes NULL: no visit goes back from Completed or InConsultation.
C29_LifecycleForward ==
    [][/\ Len(db'.visits) >= Len(db.visits)
       /\ \A v \in VisitIds(db) : Forward(db.visits[v], db'.visits[v])]_vars

\* a visit was called and checked out later, and a further visit of the
\* same patient has arrived since
C29_Witness ==
    \E v, w \in VisitIds(db) :
        /\ v < w
        /\ db.visits[v].patient_id = db.visits[w].patient_id
        /\ db.visits[v].called_at # Null
        /\ db.visits[v].checkout_at # Null
        /\ db.visits[v].called_at < db.visits[v].checkout_at
        /\ db.visits[w].called_at = Null

\* today's visits that wait
WaitingToday(d, t) ==
    {v \in VisitIds(d) : /\ d.visits[v].date = DateOf(t)
                         /\ d.visits[v].called_at = Null
                         /\ d.visits[v].checkout_at = Null}

\* v arrived no later than every visit of vs
Earliest(d, v, vs) == \A w \in vs : d.visits[v].arrived_at <= d.visits[w].arrived_at

\* C30, as stated: next_patient, when nobody is with the doctor and the
\* waiting list is not empty, moves into InConsultation the visit with the
\* earliest arrived_at among today's Waiting visits, also when a patient has
\* more than one Waiting visit today.
C30_FirstComeFirstServed ==
    (ui.started /\ ui.lists.with_doctor = NoPatient /\ ui.lists.waiting_queue # <<>>
        /\ ui.lists = load_records(db, now)) =>
    \A created, audit_created, audit_ok, load_created \in BOOLEAN :
    \A pick \in NewestUncalled(db, now, ui.lists.waiting_queue[1]) :
        LET r == next_patient(db, db_pool, ui.lists, now, pick, created, audit_created, audit_ok,
                              load_created)
        IN r.displayed =>
              \E v \in WaitingToday(db, now) :
                  /\ Earliest(db, v, WaitingToday(db, now))
                  /\ r.db = [db EXCEPT !.visits[v].called_at = now]

\* C30, amended: next_patient, when nobody is with the doctor and the
\* waiting list is not empty, calls the patient at the head of the list and
\* moves that patient's newest Waiting visit of today into InConsultation;
\* when the list is as load_records built it and the patient has one Waiting
\* visit today, that visit has the earliest arrived_at among today's Waiting
\* visits.
C30_HeadOfListNewestVisit ==
    (ui.started /\ ui.lists.with_doctor = NoPatient /\ ui.lists.waiting_queue # <<>>) =>
    \A created, audit_created, audit_ok, load_created \in BOOLEAN :
    \A pick \in NewestUncalled(db, now, ui.lists.waiting_queue[1]) :
        LET head == ui.lists.waiting_queue[1]
            r == next_patient(db, db_pool, ui.lists, now, pick, created, audit_created, audit_ok,
                              load_created)
        IN r.displayed =>
              \E v \in UncalledToday(db, now, head) :
                  /\ \A w \in UncalledToday(db, now, head) :
                        db.visits[w].arrived_at <= db.visits[v].arrived_at
                  /\ r.db = [db EXCEPT !.visits[v].called_at = now]
                  /\ r.ui.with_doctor = head
                  /\ (/\ ui.lists = load_records(db, now)
                      /\ Cardinality(UncalledToday(db, now, head)) = 1)
                     => Earliest(db, v, WaitingToday(db, now))

\* a patient's later visit of today is with the doctor while the same
\* patient's earlier visit still waits
C30_Witness ==
    /\ ui.started
    /\ \E v \in InConsultationToday(db, now) : \E w \in WaitingToday(db, now) :
          /\ db.visits[w].arrived_at < db.visits[v].arrived_at
          /\ db.visits[w].patient_id = db.visits[v].patient_id
          /\ ui.lists.with_doctor = NameOfVisit(db, v)

====
